---- MODULE Spec2Model ----
(***************************************************************************)
(* Model of tools/utils.py: enable_finetune_mode (fine-tune checkpoint     *)
(* adaptation with position-embedding interpolation) and setup_distributed.*)
(*                                                                         *)
(* A tensor is a record [shape |-> <<d1, ..., dk>>, v |-> <<...>>].        *)
(* For a token tensor of shape <<b, n, d>> the payload v has b*n entries,  *)
(* one per token in row-major (batch, token) order.  The d channels of a   *)
(* token go through slicing, reshaping, interpolation and concatenation    *)
(* independently and identically, so one representative channel value is   *)
(* kept per token while d is kept in the shape.  Values are exact          *)
(* rationals <<num, den>> in lowest terms (floating-point rounding is not  *)
(* modelled).                                                              *)
(***************************************************************************)
EXTENDS Integers, Sequences, FiniteSets, TLC

VARIABLES
    \* ---- enable_finetune_mode ----
    model_ckpt,        \* the source parameter mapping (mutated in place)
    model_sd,          \* the target model's parameters (model.state_dict())
    num_patches_model, \* model.patch_embed.num_patches
    extra_tokens,      \* local variable extra_tokens
    pos_tokens,        \* local variable pos_tokens
    pc,                \* position inside enable_finetune_mode
    err,               \* exception that left the call, or "none"
    branch,            \* which split branch ran
    log,               \* lines printed so far
    ckpt0,             \* model_ckpt at the time of the call
    model0,            \* model_sd at the time of the call
    sel_tokens,        \* pos_tokens as selected by the split, before resizing
    \* ---- setup_distributed ----
    environ,           \* os.environ
    args,              \* attributes of args
    assigned,          \* attributes assigned by the call so far
    calls,             \* external calls made so far, in order
    dpc,               \* position inside setup_distributed
    derr               \* exception that left setup_distributed, or "none"

ft_vars == <<model_ckpt, model_sd, num_patches_model, extra_tokens, pos_tokens,
             pc, err, branch, log, ckpt0, model0, sel_tokens>>
dist_vars == <<environ, args, assigned, calls, dpc, derr>>
vars == <<ft_vars, dist_vars>>

\* ------------------------------------------------------------------ bounds
MaxPatches == 9
MaxExtra == 2
\* Embedding sizes 1..MaxEmbed and class counts 1..MaxClasses; the target
\* model has MaxEmbed and MaxClasses.
MaxEmbed == 2
MaxClasses == 2
\* setup_distributed: WORLD_SIZE in 0..MaxWorldSize, ranks in 0..MaxRank,
\* args.gpus strings of up to MaxGpuStr characters.
MaxWorldSize == 2
MaxRank == 1
MaxGpuStr == 3

\* ------------------------------------------------------------- arithmetic
Min(a, b) == IF a <= b THEN a ELSE b
Max(a, b) == IF a >= b THEN a ELSE b
Abs(a) == IF a < 0 THEN -a ELSE a

RECURSIVE Gcd(_, _)
Gcd(a, b) == IF b = 0 THEN a ELSE Gcd(b, a % b)

\* The rational num/den (den > 0) in lowest terms.
Frac(num, den) ==
    LET g == Gcd(Abs(num), den)
    IN  <<num \div g, den \div g>>

\* int(np.sqrt(n)) for n >= 0: the truncated square root.
ISqrt(n) == CHOOSE r \in 0..n : r * r <= n /\ (r + 1) * (r + 1) > n

IsSquare(n) == ISqrt(n) * ISqrt(n) = n

Product(s) ==
    LET RECURSIVE P(_)
        P(i) == IF i > Len(s) THEN 1 ELSE s[i] * P(i + 1)
    IN  P(1)

\* ---------------------------------------------------------------- tensors
Null == [shape |-> <<>>, v |-> <<>>]

TokenTensor(b, n, d, vals) == [shape |-> <<b, n, d>>, v |-> vals]

\* t[:, lo:hi] of a rank-3 tensor, with Python's clamping of slice bounds
\* (lo, hi >= 0 here).
SliceTokens(t, lo, hi) ==
    LET b == t.shape[1]
        n == t.shape[2]
        l == Min(lo, n)
        h == Max(l, Min(hi, n))
        m == h - l
    IN  TokenTensor(b, m, t.shape[3],
                    [k \in 1..(b * m) |->
                        t.v[((k - 1) \div m) * n + l + ((k - 1) % m) + 1]])

\* Variant: a reshape that silently drops the tokens beyond o*o.
ReshapeTruncates(t, o, d) == o > 0

\* torch.Tensor.reshape(-1, o, o, d): the inferred leading dimension.  Raises
\* when the element count is not a multiple of o*o*d, and when o*o*d = 0 (an
\* empty tensor leaves -1 ambiguous, a non-empty one cannot fit).
ReshapeOk(t, o, d) ==
    LET numel == Product(t.shape)
        newsize == o * o * d
    IN  newsize > 0 /\ numel % newsize = 0

Reshape(t, o, d) ==
    [shape |-> <<Product(t.shape) \div (o * o * d), o, o, d>>, v |-> t.v]

\* Variant: permute(0, 3, 2, 1), which transposes each channel's grid.
PermuteTransposed(g) ==
    LET h == g.shape[2]
        w == g.shape[3]
    IN  [shape |-> <<g.shape[1], g.shape[4], w, h>>,
         v |-> [k \in 1..Len(g.v) |->
                  LET bi == (k - 1) \div (h * w)
                      y  == ((k - 1) % (h * w)) \div h
                      x  == (k - 1) % h
                  IN  g.v[bi * h * w + x * w + y + 1]]]

\* permute(0, 3, 1, 2): NHWC -> NCHW.  Each channel keeps its h x w grid in
\* row-major order, so the per-channel payload is unchanged.
PermuteToNCHW(g) ==
    [shape |-> <<g.shape[1], g.shape[4], g.shape[2], g.shape[3]>>, v |-> g.v]

\* permute(0, 2, 3, 1).flatten(1, 2): NCHW -> [b, h*w, d].
PermuteFlatten(g) ==
    [shape |-> <<g.shape[1], g.shape[3] * g.shape[4], g.shape[2]>>, v |-> g.v]

\* Cubic convolution kernel of torch's bicubic mode (A = -3/4), evaluated at
\* x = xn/q; the results are numerators over the denominator 4*q^3.
\*   |x| <= 1     : (A+2)|x|^3 - (A+3)|x|^2 + 1
\*   1 < |x| < 2  : A|x|^3 - 5A|x|^2 + 8A|x| - 4A
CubicConvolution1(xn, q) == 5 * xn * xn * xn - 9 * xn * xn * q + 4 * q * q * q
CubicConvolution2(xn, q) ==
    -3 * (xn * xn * xn - 5 * xn * xn * q + 8 * xn * q * q - 4 * q * q * q)

\* The four tap weights for the fractional offset tn/q.
CubicCoefficients(tn, q) ==
    << CubicConvolution2(tn + q, q),
       CubicConvolution1(tn, q),
       CubicConvolution1(q - tn, q),
       CubicConvolution2(2 * q - tn, q) >>

\* align_corners = False: output index dst maps to the source coordinate
\* (in/out) * (dst + 1/2) - 1/2 = SrcNum / SrcDen, dst 0-based.
SrcDen(out) == 2 * out
SrcNum(dst, in, out) == in * (2 * dst + 1) - out
SrcIndex(dst, in, out) == SrcNum(dst, in, out) \div SrcDen(out)
SrcFrac(dst, in, out) == SrcNum(dst, in, out) - SrcIndex(dst, in, out) * SrcDen(out)

Clamp(i, lo, hi) == Max(lo, Min(i, hi))

RECURSIVE Lcm(_, _)
Lcm(s, i) == IF i > Len(s) THEN 1
             ELSE LET r == Lcm(s, i + 1) IN (s[i][2] * r) \div Gcd(s[i][2], r)

\* torch.nn.functional.interpolate(g, size=(new, new), mode='bicubic',
\* align_corners=False) on an NCHW tensor, per channel.
Interpolate(g, new) ==
    LET b  == g.shape[1]
        ih == g.shape[3]
        iw == g.shape[4]
        q  == SrcDen(new)
        cd == Lcm(g.v, 1)
        den == 16 * q * q * q * q * q * q * cd
        num == [k \in 1..Len(g.v) |-> g.v[k][1] * (cd \div g.v[k][2])]
        iy == [d \in 0..(new - 1) |-> SrcIndex(d, ih, new)]
        ix == [d \in 0..(new - 1) |-> SrcIndex(d, iw, new)]
        wy == [d \in 0..(new - 1) |-> CubicCoefficients(SrcFrac(d, ih, new), q)]
        wx == [d \in 0..(new - 1) |-> CubicCoefficients(SrcFrac(d, iw, new), q)]
        In(bi, y, x) == num[bi * ih * iw + Clamp(y, 0, ih - 1) * iw + Clamp(x, 0, iw - 1) + 1]
        Row(bi, oy, ox, i) ==
            LET y == iy[oy] - 1 + i
                x == ix[ox] - 1
            IN  wy[oy][i + 1] * ( wx[ox][1] * In(bi, y, x)
                                + wx[ox][2] * In(bi, y, x + 1)
                                + wx[ox][3] * In(bi, y, x + 2)
                                + wx[ox][4] * In(bi, y, x + 3) )
        Out(bi, oy, ox) ==
            Frac(Row(bi, oy, ox, 0) + Row(bi, oy, ox, 1)
                 + Row(bi, oy, ox, 2) + Row(bi, oy, ox, 3), den)
    IN  [shape |-> <<b, g.shape[2], new, new>>,
         v |-> [k \in 1..(b * new * new) |->
                  Out((k - 1) \div (new * new),
                      ((k - 1) % (new * new)) \div new,
                      (k - 1) % new)]]

\* torch.cat((a, p), dim=1) of rank-3 tensors: every other dimension must
\* agree.
CatOk(a, p) == a.shape[1] = p.shape[1] /\ a.shape[3] = p.shape[3]

Cat(a, p) ==
    LET b  == a.shape[1]
        na == a.shape[2]
        np == p.shape[2]
        n  == na + np
    IN  TokenTensor(b, n, a.shape[3],
                    [k \in 1..(b * n) |->
                        LET bi == (k - 1) \div n
                            j  == (k - 1) % n
                        IN  IF j < na THEN a.v[bi * na + j + 1]
                            ELSE p.v[bi * np + (j - na) + 1]])

\* ------------------------------------------------------------ dictionaries
Remove(dict, k) == [x \in DOMAIN dict \ {k} |-> dict[x]]

Put(dict, k, val) == [x \in DOMAIN dict \cup {k} |-> IF x = k THEN val ELSE dict[x]]

\* A partial mapping: the keys of `full` that are in `keys`.
Restrict(full, keys) == [x \in keys |-> full[x]]

\* ------------------------------------------------- enable_finetune_mode
\* Variant: every key starting with "head" is treated as a head key.
HeadKeysByPrefix == <<"head.weight", "head.bias", "head_dist.weight">>

HeadKeys == <<"head.weight", "head.bias">>

\* Variant: the head entries are dropped without comparing shapes.
RECURSIVE HeadLoopAlwaysDrop(_, _, _, _)
HeadLoopAlwaysDrop(ck, sd, lg, i) ==
    IF i > Len(HeadKeys) THEN [ckpt |-> ck, log |-> lg, err |-> "none"]
    ELSE LET k == HeadKeys[i]
         IN  IF k \notin DOMAIN ck THEN HeadLoopAlwaysDrop(ck, sd, lg, i + 1)
             ELSE IF k \notin DOMAIN sd THEN [ckpt |-> ck, log |-> lg, err |-> "KeyError"]
             ELSE HeadLoopAlwaysDrop(Remove(ck, k), sd, Append(lg, <<"remove", k>>), i + 1)

\* for k in ['head.weight', 'head.bias']:
\*     if k in model_ckpt and model_ckpt[k].shape != current_state_dict[k].shape:
\*         print(...); del model_ckpt[k]
\* current_state_dict[k] is looked up only when k is in model_ckpt; a key the
\* target lacks raises KeyError and leaves the earlier deletions in place.
RECURSIVE HeadLoop(_, _, _, _)
HeadLoop(ck, sd, lg, i) ==
    IF i > Len(HeadKeys) THEN [ckpt |-> ck, log |-> lg, err |-> "none"]
    ELSE LET k == HeadKeys[i]
         IN  IF k \notin DOMAIN ck THEN HeadLoop(ck, sd, lg, i + 1)
             ELSE IF k \notin DOMAIN sd THEN [ckpt |-> ck, log |-> lg, err |-> "KeyError"]
             ELSE IF ck[k].shape # sd[k].shape
                  THEN HeadLoop(Remove(ck, k), sd, Append(lg, <<"remove", k>>), i + 1)
                  ELSE HeadLoop(ck, sd, lg, i + 1)

\* num_extra_tokens_model = model.pos_embed.shape[1] - num_patches_model
NumExtraTokensModel(sd, np) == sd["pos_embed"].shape[2] - np

\* The three-way split of the checkpoint's pos_embed (lines 129-144).
SplitBranch(pe, sd, np) ==
    LET ne == NumExtraTokensModel(sd, np)
    IN  IF pe.shape[2] = np THEN "exact"
        ELSE IF pe.shape[2] = ne + np THEN "clean"
        ELSE "salvage"

\* Variant: the extra tokens are always taken from the checkpoint.
SplitExtraFromCkpt(pe, sd, np) == SliceTokens(pe, 0, NumExtraTokensModel(sd, np))

SplitExtra(pe, sd, np) ==
    LET ne == NumExtraTokensModel(sd, np)
    IN  IF SplitBranch(pe, sd, np) = "exact"
        THEN SliceTokens(sd["pos_embed"], 0, ne)
        ELSE SliceTokens(pe, 0, ne)

\* Variant: the clean split assumes a single extra (class) token.
SplitPatchOneExtra(pe, sd, np) ==
    LET ne == NumExtraTokensModel(sd, np)
        br == SplitBranch(pe, sd, np)
    IN  IF br = "exact" THEN pe
        ELSE IF br = "clean" THEN SliceTokens(pe, 1, pe.shape[2])
        ELSE SliceTokens(pe, ne, ne + np)

SplitPatch(pe, sd, np) ==
    LET ne == NumExtraTokensModel(sd, np)
        br == SplitBranch(pe, sd, np)
    IN  IF br = "exact" THEN pe
        ELSE IF br = "clean" THEN SliceTokens(pe, ne, pe.shape[2])
        ELSE SliceTokens(pe, ne, ne + np)

\* model.load_state_dict(model_ckpt, strict=False): every parameter of the
\* model that the mapping holds with the same shape is copied; missing and
\* unexpected keys are ignored; a parameter held with another shape is a
\* size mismatch, reported as RuntimeError after the copies.
LoadMismatch(sd, ck) == {k \in DOMAIN sd \cap DOMAIN ck : sd[k].shape # ck[k].shape}

LoadStateDict(sd, ck) ==
    [k \in DOMAIN sd |->
        IF k \in DOMAIN ck /\ sd[k].shape = ck[k].shape THEN ck[k] ELSE sd[k]]

\* ---------------------------------------------------------------- inputs
MaxTokens == MaxExtra + MaxPatches + 1

Keys == {"pos_embed", "head.weight", "head.bias", "head_dist.weight"}

\* Token values: distinct per token and not linear in the index; the
\* checkpoint's are positive, the model's negative.
CkptVals(n) == [i \in 1..n |-> <<i * i, 1>>]
ModelVals(n) == [i \in 1..n |-> <<-i, 1>>]

Param(shape, id) == [shape |-> shape, v |-> <<<<id, 1>>>>]

\* A target model: np patches, ne extra tokens, embedding size d, c classes;
\* hasHead = FALSE is a model without a classifier head.
ModelParams(np, ne, d, c, hasHead) ==
    LET full == [k \in Keys |->
                   CASE k = "pos_embed"   -> TokenTensor(1, ne + np, d, ModelVals(ne + np))
                     [] k = "head.weight" -> Param(<<c, d>>, -101)
                     [] k = "head.bias"   -> Param(<<c>>, -102)
                     [] OTHER             -> Param(<<c, d>>, -103)]
    IN  Restrict(full, IF hasHead THEN Keys ELSE Keys \ {"head.weight", "head.bias"})

\* A checkpoint: t pos_embed tokens (0: no pos_embed entry), embedding size
\* d, cw / cb classes in the head's weight and bias (0: no such entry).
CkptParams(t, d, cw, cb) ==
    LET full == [k \in Keys |->
                   CASE k = "pos_embed"   -> TokenTensor(1, t, d, CkptVals(t))
                     [] k = "head.weight" -> Param(<<cw, d>>, 101)
                     [] k = "head.bias"   -> Param(<<cb>>, 102)
                     [] OTHER             -> Param(<<MaxClasses, d>>, 103)]
    IN  Restrict(full, {"head_dist.weight"}
                       \cup (IF t > 0 THEN {"pos_embed"} ELSE {})
                       \cup (IF cw > 0 THEN {"head.weight"} ELSE {})
                       \cup (IF cb > 0 THEN {"head.bias"} ELSE {}))

FtIdle ==
    /\ model_ckpt = <<>> /\ model_sd = <<>> /\ num_patches_model = 0
    /\ extra_tokens = Null /\ pos_tokens = Null /\ sel_tokens = Null
    /\ pc = "idle" /\ err = "none" /\ branch = "none" /\ log = <<>>
    /\ ckpt0 = <<>> /\ model0 = <<>>

DistIdle ==
    /\ environ = <<>> /\ args = <<>> /\ assigned = {} /\ calls = <<>>
    /\ dpc = "idle" /\ derr = "none"

FtInit ==
    /\ \E np \in 1..MaxPatches, ne \in 0..MaxExtra, hasHead \in BOOLEAN :
          /\ num_patches_model = np
          /\ model_sd = ModelParams(np, ne, MaxEmbed, MaxClasses, hasHead)
    /\ \E t \in 0..MaxTokens, d \in 1..MaxEmbed,
          cw \in 0..MaxClasses, cb \in 0..MaxClasses :
          /\ t = 0 => d = 1
          /\ model_ckpt = CkptParams(t, d, cw, cb)
    /\ ckpt0 = model_ckpt
    /\ model0 = model_sd
    /\ extra_tokens = Null /\ pos_tokens = Null /\ sel_tokens = Null
    /\ pc = "head" /\ err = "none" /\ branch = "none" /\ log = <<>>

Raise(e) == pc' = "raised" /\ err' = e

\* lines 113-118
HeadReconcile ==
    /\ pc = "head"
    /\ LET r == HeadLoop(model_ckpt, model_sd, log, 1)
       IN  /\ model_ckpt' = r.ckpt
           /\ log' = r.log
           /\ IF r.err = "none" THEN pc' = "split" /\ err' = err ELSE Raise(r.err)
    /\ UNCHANGED <<model_sd, num_patches_model, extra_tokens, pos_tokens, branch,
                   ckpt0, model0, sel_tokens>>

\* lines 121-144
Split ==
    /\ pc = "split"
    /\ IF "pos_embed" \notin DOMAIN model_ckpt
       THEN /\ Raise("KeyError")
            /\ UNCHANGED <<extra_tokens, pos_tokens, sel_tokens, branch, log>>
       ELSE LET pe == model_ckpt["pos_embed"]
                br == SplitBranch(pe, model_sd, num_patches_model)
            IN  /\ branch' = br
                /\ extra_tokens' = SplitExtra(pe, model_sd, num_patches_model)
                /\ pos_tokens' = SplitPatch(pe, model_sd, num_patches_model)
                /\ sel_tokens' = pos_tokens'
                /\ log' = IF br = "clean" THEN log ELSE Append(log, <<br>>)
                /\ pc' = "resize" /\ err' = err
    /\ UNCHANGED <<model_ckpt, model_sd, num_patches_model, ckpt0, model0>>

\* line 122: embedding_size = pos_embed_checkpoint.shape[-1]
EmbeddingSize(ck) == ck["pos_embed"].shape[3]

\* lines 147-148
OrigSize(t) == ISqrt(t.shape[2])
NewSize(np) == ISqrt(np)

\* lines 151-154: reshape -> permute -> interpolate -> permute -> flatten
ResizeOk(t, d, np) == ReshapeOk(t, OrigSize(t), d)

\* Variant: the interpolation step is left out.
ResizedNoInterpolate(t, d, np) ==
    PermuteFlatten(PermuteToNCHW(Reshape(t, OrigSize(t), d)))

Resized(t, d, np) ==
    PermuteFlatten(Interpolate(PermuteToNCHW(Reshape(t, OrigSize(t), d)), NewSize(np)))

\* lines 147-154
Resize ==
    /\ pc = "resize"
    /\ LET d == EmbeddingSize(model_ckpt)
       IN  IF ResizeOk(pos_tokens, d, num_patches_model)
           THEN /\ pos_tokens' = Resized(pos_tokens, d, num_patches_model)
                /\ pc' = "cat" /\ err' = err
           ELSE /\ Raise("RuntimeError")
                /\ UNCHANGED pos_tokens
    /\ UNCHANGED <<model_ckpt, model_sd, num_patches_model, extra_tokens, branch, log,
                   ckpt0, model0, sel_tokens>>

\* lines 157-158
Recombine ==
    /\ pc = "cat"
    /\ IF CatOk(extra_tokens, pos_tokens)
       THEN /\ model_ckpt' = Put(model_ckpt, "pos_embed", Cat(extra_tokens, pos_tokens))
            /\ pc' = "load" /\ err' = err
       ELSE /\ Raise("RuntimeError")
            /\ UNCHANGED model_ckpt
    /\ UNCHANGED <<model_sd, num_patches_model, extra_tokens, pos_tokens, branch, log,
                   ckpt0, model0, sel_tokens>>

\* line 160
Load ==
    /\ pc = "load"
    /\ model_sd' = LoadStateDict(model_sd, model_ckpt)
    /\ IF LoadMismatch(model_sd, model_ckpt) = {}
       THEN pc' = "done" /\ err' = err
       ELSE Raise("RuntimeError")
    /\ UNCHANGED <<model_ckpt, num_patches_model, extra_tokens, pos_tokens, branch, log,
                   ckpt0, model0, sel_tokens>>

\* ------------------------------------------------------ setup_distributed
\* Strings are sequences of one-character strings.
DigitSeq == <<"0", "1", "2", "3", "4", "5", "6", "7", "8", "9">>
DigitVal(c) == CHOOSE n \in 0..9 : DigitSeq[n + 1] = c
IsDigit(c) == \E n \in 0..9 : DigitSeq[n + 1] = c

\* str(n) for 0 <= n <= 9
Str(n) == <<DigitSeq[n + 1]>>

\* int(s) of a string of digits, commas excluded: ValueError on the empty
\* string and on any other character.
IntOk(s) == Len(s) > 0 /\ \A i \in 1..Len(s) : IsDigit(s[i])

RECURSIVE IntOf(_)
IntOf(s) == IF s = <<>> THEN 0
            ELSE 10 * IntOf(SubSeq(s, 1, Len(s) - 1)) + DigitVal(s[Len(s)])

\* s.split(','): at least one field, empty fields kept.
RECURSIVE SplitComma(_)
SplitComma(s) ==
    IF \A i \in 1..Len(s) : s[i] # ","
    THEN <<s>>
    ELSE LET i == CHOOSE j \in 1..Len(s) : s[j] = "," /\ \A k \in 1..(j - 1) : s[k] # ","
         IN  <<SubSeq(s, 1, i - 1)>> \o SplitComma(SubSeq(s, i + 1, Len(s)))

None == <<"None">>

GpuChars == {"0", "1", ","}

Strings(chars, n) == UNION {[1..k -> chars] : k \in 0..n}

\* Assignments to attributes of args, as a list of <<name, value>>.
RECURSIVE Assign(_, _)
Assign(a, kvs) ==
    IF kvs = <<>> THEN a ELSE Assign(Put(a, kvs[1][1], kvs[1][2]), Tail(kvs))

Names(kvs) == {kvs[i][1] : i \in 1..Len(kvs)}

\* lines 24-50: the assignments made, in order, and the exception that ends
\* them ("none": the branch ran to its end).
ConfigureGpusOne(gpu_list) ==
    <<<<"distributed", FALSE>>, <<"gpu", IF gpu_list # <<>> THEN gpu_list[1] ELSE 0>>>>

Configure(env, a) ==
    LET first == <<<<"distributed", FALSE>>>>
    IN  IF "WORLD_SIZE" \in DOMAIN env
        THEN IF ~IntOk(env["WORLD_SIZE"])
             THEN [set |-> first, err |-> "ValueError", cuda |-> None]
             ELSE LET ws == IntOf(env["WORLD_SIZE"])
                      a1 == first \o <<<<"world_size", ws>>>>
                  IN  IF ws > 1
                      THEN IF "RANK" \notin DOMAIN env
                           THEN [set |-> a1, err |-> "KeyError", cuda |-> None]
                           ELSE IF ~IntOk(env["RANK"])
                           THEN [set |-> a1, err |-> "ValueError", cuda |-> None]
                           ELSE LET a2 == a1 \o <<<<"rank", IntOf(env["RANK"])>>>>
                                IN  IF "LOCAL_RANK" \notin DOMAIN env
                                    THEN [set |-> a2, err |-> "KeyError", cuda |-> None]
                                    ELSE IF ~IntOk(env["LOCAL_RANK"])
                                    THEN [set |-> a2, err |-> "ValueError", cuda |-> None]
                                    ELSE [set |-> a2 \o <<<<"gpu", IntOf(env["LOCAL_RANK"])>>,
                                                          <<"distributed", TRUE>>>>,
                                          err |-> "none", cuda |-> None]
                      ELSE [set |-> a1 \o <<<<"distributed", FALSE>>, <<"rank", 0>>,
                                            <<"gpu", 0>>>>,
                            err |-> "none", cuda |-> None]
        ELSE IF a["gpus"] # None
        THEN LET fields == SplitComma(a["gpus"])
             IN  IF \E i \in 1..Len(fields) : ~IntOk(fields[i])
                 THEN [set |-> first, err |-> "ValueError", cuda |-> None]
                 ELSE LET gpu_list == [i \in 1..Len(fields) |-> IntOf(fields[i])]
                      IN  IF Len(gpu_list) > 1
                          THEN [set |-> first \o <<<<"distributed", TRUE>>, <<"rank", 0>>,
                                                   <<"world_size", Len(gpu_list)>>,
                                                   <<"gpu", 0>>>>,
                                err |-> "none", cuda |-> a["gpus"]]
                          ELSE [set |-> first \o ConfigureGpusOne(gpu_list),
                                err |-> "none", cuda |-> None]
        ELSE [set |-> first \o <<<<"distributed", FALSE>>, <<"rank", 0>>, <<"gpu", 0>>>>,
              err |-> "none", cuda |-> None]

DistInit ==
    /\ \E ws \in {None} \cup {Str(n) : n \in 0..MaxWorldSize},
          rk \in {None} \cup {Str(n) : n \in 0..MaxRank},
          lr \in {None} \cup {Str(n) : n \in 0..MaxRank} :
          environ = Restrict([k \in {"WORLD_SIZE", "RANK", "LOCAL_RANK"} |->
                                 CASE k = "WORLD_SIZE" -> ws
                                   [] k = "RANK" -> rk
                                   [] OTHER -> lr],
                             (IF ws # None THEN {"WORLD_SIZE"} ELSE {})
                             \cup (IF rk # None THEN {"RANK"} ELSE {})
                             \cup (IF lr # None THEN {"LOCAL_RANK"} ELSE {}))
    /\ \E g \in {None} \cup Strings(GpuChars, MaxGpuStr) :
          args = [k \in {"gpus", "dist_url"} |-> IF k = "gpus" THEN g ELSE <<"e", "n", "v">>]
    /\ assigned = {} /\ calls = <<>> /\ dpc = "start" /\ derr = "none"

\* lines 24-50
SetupConfigure ==
    /\ dpc = "start"
    /\ LET r == Configure(environ, args)
       IN  /\ args' = Assign(args, r.set)
           /\ assigned' = assigned \cup Names(r.set)
           /\ environ' = IF r.cuda # None
                         THEN Put(environ, "CUDA_VISIBLE_DEVICES", r.cuda)
                         ELSE environ
           /\ IF r.err = "none"
              THEN dpc' = "configured" /\ derr' = derr
              ELSE dpc' = "raised" /\ derr' = r.err
    /\ UNCHANGED calls

\* lines 52-62: set_device, dist_backend, init_process_group.  The process
\* group is an external collaborator: init either completes or raises.
SetupInitProcessGroup ==
    /\ dpc = "configured"
    /\ args["distributed"]
    /\ args' = Put(args, "dist_backend", <<"n", "c", "c", "l">>)
    /\ assigned' = assigned \cup {"dist_backend"}
    /\ calls' = calls \o <<"set_device", "init_process_group">>
    /\ \E ok \in BOOLEAN :
          IF ok THEN dpc' = "barrier" /\ derr' = derr
                ELSE dpc' = "raised" /\ derr' = "RuntimeError"
    /\ UNCHANGED environ

\* line 63
SetupBarrier ==
    /\ dpc = "barrier"
    /\ calls' = Append(calls, "barrier")
    /\ \E ok \in BOOLEAN :
          IF ok THEN dpc' = "returned" /\ derr' = derr
                ELSE dpc' = "raised" /\ derr' = "RuntimeError"
    /\ UNCHANGED <<environ, args, assigned>>

\* lines 64-65
SetupNotDistributed ==
    /\ dpc = "configured"
    /\ ~args["distributed"]
    /\ dpc' = "returned"
    /\ UNCHANGED <<environ, args, assigned, calls, derr>>

\* ---------------------------------------------------------- specifications
Init == FtInit /\ DistIdle

Next ==
    \/ HeadReconcile /\ UNCHANGED dist_vars
    \/ Split /\ UNCHANGED dist_vars
    \/ Resize /\ UNCHANGED dist_vars
    \/ Recombine /\ UNCHANGED dist_vars
    \/ Load /\ UNCHANGED dist_vars

Spec == Init /\ [][Next]_vars

InitDist == FtIdle /\ DistInit

NextDist ==
    \/ SetupConfigure /\ UNCHANGED ft_vars
    \/ SetupInitProcessGroup /\ UNCHANGED ft_vars
    \/ SetupBarrier /\ UNCHANGED ft_vars
    \/ SetupNotDistributed /\ UNCHANGED ft_vars

SpecDist == InitDist /\ [][NextDist]_vars

\* ------------------------------------------------------------------ claims
HeadKeySet == {"head.weight", "head.bias"}

HasPosEmbed == "pos_embed" \in DOMAIN ckpt0
CkptTokens == ckpt0["pos_embed"].shape[2]
CkptEmbed == ckpt0["pos_embed"].shape[3]
ModelEmbed == model0["pos_embed"].shape[3]
NumExtra == model0["pos_embed"].shape[2] - num_patches_model
Floor2(n) == ISqrt(n) * ISqrt(n)

\* The split has run (extra_tokens / pos_tokens are assigned).
SplitDone == branch # "none"
\* model_ckpt['pos_embed'] has been overwritten.
Overwritten == pc \in {"load", "done"}
\* The head loop ran to its end.
HeadLoopDone == pc # "head" /\ \A k \in HeadKeySet \cap DOMAIN ckpt0 : k \in DOMAIN model0
\* The inputs respect the adapter's stated input contract: a perfect-square
\* patch count and a checkpoint of the target's embedding size.
ContractInputs ==
    /\ IsSquare(num_patches_model)
    /\ HasPosEmbed => CkptEmbed = ModelEmbed

\* C1 (as stated): whenever pos_embed is overwritten, the new tensor has
\* shape [1, num_extra_tokens_model + num_patches_model, embed_dim], in all
\* three split branches.
C1_ShapeAsClaimed ==
    Overwritten =>
        model_ckpt["pos_embed"].shape = <<1, NumExtra + num_patches_model, CkptEmbed>>

\* C1 (amended): whenever pos_embed is overwritten, the new tensor has shape
\* [1, num_extra_tokens_model + floor(sqrt(num_patches_model))^2, embed_dim]
\* in all three split branches; this is num_extra_tokens_model +
\* num_patches_model exactly when num_patches_model is a perfect square.
C1_ShapeAmended ==
    Overwritten =>
        /\ model_ckpt["pos_embed"].shape
             = <<1, NumExtra + Floor2(num_patches_model), CkptEmbed>>
        /\ IsSquare(num_patches_model)
             <=> model_ckpt["pos_embed"].shape[2] = NumExtra + num_patches_model

C1_Witness ==
    /\ pc = "load" /\ branch = "salvage"
    /\ sel_tokens.shape[2] # num_patches_model
    /\ IsSquare(num_patches_model) /\ NumExtra > 0

\* C2: enable_finetune_mode fails only with a lookup error for an absent
\* required key; on inputs within the input contract every other call
\* completes, whatever the checkpoint's token count.
C2_OnlyLookupErrors ==
    (pc = "raised" /\ ContractInputs) =>
        /\ err = "KeyError"
        /\ \/ ~HasPosEmbed
           \/ \E k \in HeadKeySet \cap DOMAIN ckpt0 : k \notin DOMAIN model0

\* C3: a head key present in the source mapping is still present after the
\* head loop, with its value unchanged, if and only if its shape equals the
\* shape of that key in the target model's state dict.
C3_HeadKept ==
    HeadLoopDone =>
        \A k \in HeadKeySet \cap DOMAIN ckpt0 :
            /\ k \in DOMAIN model_ckpt <=> ckpt0[k].shape = model0[k].shape
            /\ k \in DOMAIN model_ckpt => model_ckpt[k] = ckpt0[k]

C3_Witness ==
    /\ pc = "done"
    /\ "head.weight" \in DOMAIN ckpt0 /\ "head.weight" \notin DOMAIN model_ckpt
    /\ "head.bias" \in DOMAIN model_ckpt

\* C4: when the checkpoint's token count is num_extra_tokens_model +
\* num_patches_model, the split selects the first num_extra_tokens_model
\* checkpoint tokens as extra tokens and the remaining num_patches_model
\* tokens, in order, as patch tokens (also when num_extra_tokens_model = 0).
C4_CleanSplit ==
    (SplitDone /\ CkptTokens = NumExtra + num_patches_model) =>
        /\ extra_tokens.shape[2] = NumExtra
        /\ extra_tokens.v = SubSeq(ckpt0["pos_embed"].v, 1, NumExtra)
        /\ sel_tokens.shape = <<1, num_patches_model, CkptEmbed>>
        /\ sel_tokens.v = SubSeq(ckpt0["pos_embed"].v, NumExtra + 1,
                                 NumExtra + num_patches_model)

C4_Witness ==
    /\ pc = "done" /\ branch = "clean" /\ NumExtra > 0 /\ num_patches_model > 1

\* C5: when orig_size = new_size, reshape -> bicubic interpolate -> flatten
\* returns the patch tokens unchanged in value and order, and in the
\* clean-split case the overwritten pos_embed is identical to the input.
C5_IdentityResize ==
    /\ (pc \in {"cat", "load", "done"} /\ OrigSize(sel_tokens) = NewSize(num_patches_model))
          => pos_tokens.v = sel_tokens.v
    /\ (Overwritten /\ branch = "clean") => model_ckpt["pos_embed"] = ckpt0["pos_embed"]

C5_Witness ==
    /\ pc = "done" /\ branch = "clean" /\ num_patches_model > 3
    /\ OrigSize(sel_tokens) = NewSize(num_patches_model) /\ OrigSize(sel_tokens) > 1

\* C6: in the mismatch branch (token count neither num_patches_model nor
\* num_extra_tokens_model + num_patches_model) the call recovers and runs to
\* completion without raising, for every such token count.
C6_SalvageCompletes ==
    (branch = "salvage" /\ ContractInputs) =>
        /\ pc # "raised"
        /\ <<"salvage">> = log[Len(log)]

\* C7: the source mapping changes only by deletion of head.weight /
\* head.bias and by overwriting pos_embed: every other key keeps its value
\* and no key is added.
C7_Frame ==
    /\ DOMAIN model_ckpt \subseteq DOMAIN ckpt0
    /\ DOMAIN ckpt0 \ DOMAIN model_ckpt \subseteq HeadKeySet
    /\ \A k \in DOMAIN model_ckpt \ {"pos_embed"} : model_ckpt[k] = ckpt0[k]

C7_Witness ==
    /\ pc = "done"
    /\ "head.bias" \in DOMAIN ckpt0 /\ "head.bias" \notin DOMAIN model_ckpt
    /\ model_ckpt["pos_embed"] # ckpt0["pos_embed"]
    /\ "head_dist.weight" \in DOMAIN model_ckpt

\* A patch count that is not a perfect square, on either side of the resize.
NonSquare == ~IsSquare(sel_tokens.shape[2]) \/ ~IsSquare(num_patches_model)

C9_ExactBorrowsExtra ==
    (SplitDone /\ CkptTokens = num_patches_model) =>
        /\ sel_tokens = ckpt0["pos_embed"]
        /\ extra_tokens = SliceTokens(model0["pos_embed"], 0, NumExtra)
        /\ Overwritten =>
              /\ SubSeq(model_ckpt["pos_embed"].v, 1, NumExtra)
                   = SubSeq(model0["pos_embed"].v, 1, NumExtra)
              /\ \A i \in 1..NumExtra :
                    model_ckpt["pos_embed"].v[i] \notin
                        {ckpt0["pos_embed"].v[j] : j \in 1..CkptTokens}

C9_Witness ==
    /\ pc = "done" /\ branch = "exact" /\ NumExtra > 0 /\ num_patches_model > 1

\* C10: on every branch setup_distributed assigns args.distributed, args.rank
\* and args.gpu before it returns, and it initialises the process group and
\* then calls the barrier exactly when args.distributed is true (with
\* args.world_size assigned in that case).
C10_AssignsAndInits ==
    dpc = "returned" =>
        /\ {"distributed", "rank", "gpu"} \subseteq assigned
        /\ args["distributed"]
             <=> calls = <<"set_device", "init_process_group", "barrier">>
        /\ ~args["distributed"] => calls = <<>>
        /\ args["distributed"] => "world_size" \in assigned

====
